---- MODULE Spec2Model ----
(***************************************************************************)
(* Model of scripts/generate_transactions.py: the reference tables, the    *)
(* amount and account helpers, the six row builders, the weighted row      *)
(* selector and main()'s argument handling and write loop.                 *)
(*                                                                         *)
(* Conventions.                                                            *)
(*  - A string of decimal digits (an account number, the numeric part of a *)
(*    reference id) is a sequence of digits 0..9, so that formatting       *)
(*    (str(), f"{i:07d}") is computed and not assumed.                     *)
(*  - The integers drawn by unknown_account_number() exceed 32 bits; such  *)
(*    an integer n is the pair <<n \div 10^5, n % 10^5>>.                  *)
(*  - Probabilities and random.random() are in hundredths: 0.15 is 15.     *)
(*  - Every random draw is a nondeterministic choice.  random.randint      *)
(*    draws are taken from the two ends of the range, and from every       *)
(*    value of the range that the code treats specially.                   *)
(***************************************************************************)
EXTENDS Integers, Sequences, FiniteSets, TLC

VARIABLES
    pc,               \* position in main()
    argv,             \* the command line: [rows, invalid_rate, out_dir]
    rows,             \* args.rows
    dirs_created,     \* os.makedirs(out_dir) was called
    file_opened,      \* open(args.out, "w") was called (creates/truncates)
    file_closed,      \* the with-block was left
    file_header,      \* number of header rows in the file
    file_ids,         \* the Reference ID column of the data rows in the file
    invalid_rate,     \* the clamped rate
    expected_invalid,
    expected_valid,
    valid_count,
    invalid_count,
    i,                \* loop index
    row,              \* the row built in this iteration, not yet written
    fn,               \* the builder that produced row
    redraws           \* rejected draws of unknown_account_number() for row

vars == <<pc, argv, rows, dirs_created, file_opened, file_closed, file_header,
          file_ids, invalid_rate, expected_invalid, expected_valid,
          valid_count, invalid_count, i, row, fn, redraws>>

(***************************************************************************)
(* Bounds of the model.                                                    *)
(***************************************************************************)
MaxRows == 2        \* largest --rows on the command line
MaxRedraws == 1     \* most rejected draws in one unknown_account_number()
NoteDraws == 2      \* random.choice(NOTES) draws among the first NoteDraws

(***************************************************************************)
(* Reference data.                                                         *)
(***************************************************************************)
VALID_BANK_CODES ==
    <<"BCA", "BNI", "BRI", "MANDIRI", "CIMB", "DANAMON", "PERMATA", "BTN",
      "BSI", "OCBC">>

INVALID_BANK_CODES == <<"XENDIT", "GOPAY", "OVO", "DANA", "FAKE_BANK">>

TxLimit(t, lo, hi) == [tx_type |-> t, min_amount |-> lo, max_amount |-> hi]

TRANSACTION_LIMITS ==
    << TxLimit("TRANSFER",   10000, 1000000000),
       TxLimit("PAYMENT",     1000,  500000000),
       TxLimit("TOPUP",      10000,   50000000),
       TxLimit("WITHDRAWAL", 50000,   20000000) >>

Range(s) == { s[k] : k \in 1..Len(s) }

TX_LIMIT_MAP ==
    [ t \in { l.tx_type : l \in Range(TRANSACTION_LIMITS) } |->
        CHOOSE l \in Range(TRANSACTION_LIMITS) : l.tx_type = t ]

MockAccount(num, name, bank, status) ==
    [account_number |-> num, account_name |-> name, bank_code |-> bank,
     status |-> status]

SEEDED_ACCOUNTS ==
    << MockAccount(<<1,2,3,4,5,6,7,8,9,0>>, "Budi Santoso",   "BCA",     "ACTIVE"),
       MockAccount(<<0,9,8,7,6,5,4,3,2,1>>, "Siti Rahayu",    "BNI",     "ACTIVE"),
       MockAccount(<<1,1,2,2,3,3,4,4,5,5>>, "Ahmad Fauzi",    "BRI",     "ACTIVE"),
       MockAccount(<<5,5,4,4,3,3,2,2,1,1>>, "Dewi Lestari",   "MANDIRI", "ACTIVE"),
       MockAccount(<<6,6,7,7,8,8,9,9,0,0>>, "Rudi Hermawan",  "CIMB",    "INACTIVE"),
       MockAccount(<<9,9,0,0,1,1,2,2,3,3>>, "Rina Kusuma",    "DANAMON", "ACTIVE"),
       MockAccount(<<3,3,4,4,5,5,6,6,7,7>>, "Hendra Gunawan", "PERMATA", "BLOCKED"),
       MockAccount(<<7,7,8,8,9,9,0,0,1,1>>, "Yuni Astuti",    "BTN",     "ACTIVE"),
       MockAccount(<<2,2,3,3,4,4,5,5,6,6>>, "Fajar Nugroho",  "BSI",     "ACTIVE"),
       MockAccount(<<4,4,5,5,6,6,7,7,8,8>>, "Indah Permata",  "OCBC",    "ACTIVE"),
       MockAccount(<<1,3,5,7,9,2,4,6,8,0>>, "Wahyu Prasetyo", "BCA",     "ACTIVE"),
       MockAccount(<<2,4,6,8,0,1,3,5,7,9>>, "Maya Sari",      "BRI",     "ACTIVE"),
       MockAccount(<<1,1,1,1,2,2,2,2,3,3>>, "Doni Kurniawan", "MANDIRI", "ACTIVE"),
       MockAccount(<<4,4,4,4,5,5,5,5,6,6>>, "Lina Marlina",   "BNI",     "INACTIVE"),
       MockAccount(<<7,7,7,7,8,8,8,8,9,9>>, "Agus Salim",     "BSI",     "ACTIVE") >>

ACTIVE_ACCOUNTS   == SelectSeq(SEEDED_ACCOUNTS, LAMBDA a : a.status = "ACTIVE")
INACTIVE_ACCOUNTS == SelectSeq(SEEDED_ACCOUNTS, LAMBDA a : a.status = "INACTIVE")
BLOCKED_ACCOUNTS  == SelectSeq(SEEDED_ACCOUNTS, LAMBDA a : a.status = "BLOCKED")

NOTES ==
    <<"Monthly salary", "Invoice #4521", "Gift transfer", "Loan repayment",
      "School fees", "Business payment", "Online purchase", "Utility bill",
      "Insurance premium", "Subscription renewal", "", "", "">>

(***************************************************************************)
(* The random module.                                                      *)
(***************************************************************************)
\* random.random(): a float of [0.0, 1.0), in hundredths
RandomRandom == {0, 49, 50, 99}

\* x < 0.5 for a draw x of random.random()
CoinFlips == { x < 50 : x \in RandomRandom }

\* random.choice(seq)
RandomChoice(seq) == Range(seq)

\* random.randint(lo, hi): lo <= n <= hi, drawn at the ends of the range
RandInt(lo, hi) == { n \in {lo, hi} : lo <= n /\ n <= hi }

\* random.choice(NOTES)
NoteChoices == { NOTES[k] : k \in 1..(IF NoteDraws < Len(NOTES) THEN NoteDraws ELSE Len(NOTES)) }

(***************************************************************************)
(* Formatting.                                                             *)
(***************************************************************************)
RECURSIVE Digits(_)
\* the decimal digits of n >= 0, most significant first: str(n), "%d" % n
Digits(n) == IF n < 10 THEN <<n>> ELSE Digits(n \div 10) \o <<n % 10>>

RECURSIVE ZeroPad(_, _)
\* left-pad with zeros to at least w characters: the 0w of a format spec
ZeroPad(ds, w) == IF Len(ds) >= w THEN ds ELSE ZeroPad(<<0>> \o ds, w)

RECURSIVE Value(_)
\* the integer a digit string denotes
Value(ds) == IF ds = <<>> THEN 0
             ELSE 10 * Value(SubSeq(ds, 1, Len(ds) - 1)) + ds[Len(ds)]

\* Variant: the id padded to 6 digits, f"TRX-{i:06d}".
ReferenceIdWidth6(n) == [prefix |-> "TRX-", digits |-> ZeroPad(Digits(n), 6)]

\* f"TRX-{i:07d}"
ReferenceId(n) == [prefix |-> "TRX-", digits |-> ZeroPad(Digits(n), 7)]

\* str(n) of a wide integer n = <<n \div 10^5, n % 10^5>>
StrWide(n) == IF n[1] = 0 THEN Digits(n[2])
              ELSE Digits(n[1]) \o ZeroPad(Digits(n[2]), 5)


\* a 10-digit string as a wide integer: int(s)
WideOf(ds) == << Value(SubSeq(ds, 1, Len(ds) - 5)),
                 Value(SubSeq(ds, Len(ds) - 4, Len(ds))) >>

WideLeq(a, b) == a[1] < b[1] \/ (a[1] = b[1] /\ a[2] <= b[2])

(***************************************************************************)
(* Helpers.  Each returns the set of values its random draws can produce.  *)
(***************************************************************************)
pick_valid_amount(tx_type) ==
    LET limit == TX_LIMIT_MAP[tx_type]
    IN  RandInt(limit.min_amount, limit.max_amount)

\* Variant: the upper end of the draw is the minimum itself,
\* random.randint(1, limit.min_amount).
pick_below_min_amount_inclusive(tx_type) ==
    LET limit == TX_LIMIT_MAP[tx_type]
    IN  IF limit.min_amount <= 1 THEN {0}
        ELSE RandInt(1, limit.min_amount)

pick_below_min_amount(tx_type) ==
    LET limit == TX_LIMIT_MAP[tx_type]
    IN  IF limit.min_amount <= 1 THEN {0}
        ELSE RandInt(1, limit.min_amount - 1)

\* {a.account_number for a in SEEDED_ACCOUNTS}
SeededNumbers == { a.account_number : a \in Range(SEEDED_ACCOUNTS) }

\* Variant: the lower end with a digit dropped, randint(500_000_000, ...).
UNKNOWN_RANGE_short == [lo |-> <<5000, 0>>, hi |-> <<99999, 99999>>]

\* the range of random.randint(5_000_000_000, 9_999_999_999)
UNKNOWN_RANGE == [lo |-> <<50000, 0>>, hi |-> <<99999, 99999>>]

\* The draws of that randint: the two ends of the range, and every integer
\* of the range whose str() is a seeded account number.
UnknownDraws ==
    { n \in {UNKNOWN_RANGE.lo, UNKNOWN_RANGE.hi}
              \cup { WideOf(s) : s \in SeededNumbers } :
        WideLeq(UNKNOWN_RANGE.lo, n) /\ WideLeq(n, UNKNOWN_RANGE.hi) }

RECURSIVE UnknownLoop(_)
\* the while-loop after k rejected draws: a draw is returned unless seeded
UnknownLoop(k) ==
    UNION { IF StrWide(n) \notin SeededNumbers
              THEN { [num |-> StrWide(n), redraws |-> k] }
              ELSE IF k < MaxRedraws THEN UnknownLoop(k + 1) ELSE {}
            : n \in UnknownDraws }

\* Variant: the loop without its membership test returns the first draw.
unknown_account_number_unchecked ==
    { [num |-> StrWide(n), redraws |-> 0] : n \in UnknownDraws }

\* the numbers unknown_account_number() can return, each with the number of
\* draws the loop rejected before it
unknown_account_number == UnknownLoop(0)

(***************************************************************************)
(* Row builders.  A builder is the relation between the row index and the  *)
(* row it returns: its random draws are the quantified variables, and the  *)
(* returned list is the next value of row.                                 *)
(***************************************************************************)
Row(ref, sno, sname, sbank, bno, bname, bbank, amount, tx_type, note) ==
    [referenceId |-> ref,
     sourceAccount |-> sno, sourceAccountName |-> sname, sourceBankCode |-> sbank,
     beneficiaryAccount |-> bno, beneficiaryAccountName |-> bname,
     beneficiaryBankCode |-> bbank,
     currency |-> "IDR", amount |-> amount, transactionType |-> tx_type,
     note |-> note]

\* random.choice(TRANSACTION_LIMITS).tx_type
TxTypes == { l.tx_type : l \in RandomChoice(TRANSACTION_LIMITS) }

\* Variant: the beneficiary drawn from all of ACTIVE_ACCOUNTS, as
\* build_invalid_bank_code_row draws it.
build_valid_row_any_beneficiary(n) ==
    \E tx_type \in TxTypes :
    \E src \in RandomChoice(ACTIVE_ACCOUNTS) :
    \E bene \in RandomChoice(ACTIVE_ACCOUNTS) :
    \E amount \in pick_valid_amount(tx_type) :
    \E note \in NoteChoices :
        row' = Row(ReferenceId(n),
                   src.account_number, src.account_name, src.bank_code,
                   bene.account_number, bene.account_name, bene.bank_code,
                   amount, tx_type, note)

build_valid_row(n) ==
    \E tx_type \in TxTypes :
    \E src \in RandomChoice(ACTIVE_ACCOUNTS) :
    \E bene \in RandomChoice(SelectSeq(ACTIVE_ACCOUNTS, LAMBDA a : a # src)) :
    \E amount \in pick_valid_amount(tx_type) :
    \E note \in NoteChoices :
        row' = Row(ReferenceId(n),
                   src.account_number, src.account_name, src.bank_code,
                   bene.account_number, bene.account_name, bene.bank_code,
                   amount, tx_type, note)

build_invalid_bank_code_row(n) ==
    \E tx_type \in TxTypes :
    \E src \in RandomChoice(ACTIVE_ACCOUNTS) :
    \E bene \in RandomChoice(ACTIVE_ACCOUNTS) :
    \E amount \in pick_valid_amount(tx_type) :
    \E bad_bank \in RandomChoice(INVALID_BANK_CODES) :
    \E coin \in CoinFlips :
    \E note \in NoteChoices :
        LET src_bank  == IF coin THEN bad_bank ELSE src.bank_code
            bene_bank == IF src_bank = src.bank_code THEN bad_bank
                         ELSE bene.bank_code
        IN  row' = Row(ReferenceId(n),
                       src.account_number, src.account_name, src_bank,
                       bene.account_number, bene.account_name, bene_bank,
                       amount, tx_type, note)

build_inactive_account_row(n) ==
    \E tx_type \in TxTypes :
    \E amount \in pick_valid_amount(tx_type) :
    \E bad_acct \in RandomChoice(INACTIVE_ACCOUNTS) :
    \E good_acct \in RandomChoice(ACTIVE_ACCOUNTS) :
    \E coin \in CoinFlips :
    \E note \in NoteChoices :
        LET src  == IF coin THEN bad_acct ELSE good_acct
            bene == IF coin THEN good_acct ELSE bad_acct
        IN  row' = Row(ReferenceId(n),
                       src.account_number, src.account_name, src.bank_code,
                       bene.account_number, bene.account_name, bene.bank_code,
                       amount, tx_type, note)

\* Variant: the bad account drawn from INACTIVE_ACCOUNTS, the builder above
\* copied without changing the list.
build_blocked_account_row_inactive(n) == build_inactive_account_row(n)

build_blocked_account_row(n) ==
    \E tx_type \in TxTypes :
    \E amount \in pick_valid_amount(tx_type) :
    \E bad_acct \in RandomChoice(BLOCKED_ACCOUNTS) :
    \E good_acct \in RandomChoice(ACTIVE_ACCOUNTS) :
    \E coin \in CoinFlips :
    \E note \in NoteChoices :
        LET src  == IF coin THEN bad_acct ELSE good_acct
            bene == IF coin THEN good_acct ELSE bad_acct
        IN  row' = Row(ReferenceId(n),
                       src.account_number, src.account_name, src.bank_code,
                       bene.account_number, bene.account_name, bene.bank_code,
                       amount, tx_type, note)

build_unknown_account_row(n) ==
    \E tx_type \in TxTypes :
    \E amount \in pick_valid_amount(tx_type) :
    \E good_acct \in RandomChoice(ACTIVE_ACCOUNTS) :
    \E unknown \in unknown_account_number :
    \E unknown_bank \in RandomChoice(VALID_BANK_CODES) :
    \E coin \in CoinFlips :
    \E note \in NoteChoices :
        /\ redraws' = unknown.redraws
        /\ row' = IF coin
                    THEN Row(ReferenceId(n),
                             unknown.num, "Unknown Person", unknown_bank,
                             good_acct.account_number, good_acct.account_name,
                             good_acct.bank_code,
                             amount, tx_type, note)
                    ELSE Row(ReferenceId(n),
                             good_acct.account_number, good_acct.account_name,
                             good_acct.bank_code,
                             unknown.num, "Unknown Person", unknown_bank,
                             amount, tx_type, note)

build_below_minimum_amount_row(n) ==
    \E tx_type \in TxTypes :
    \E src \in RandomChoice(ACTIVE_ACCOUNTS) :
    \E bene \in RandomChoice(SelectSeq(ACTIVE_ACCOUNTS, LAMBDA a : a # src)) :
    \E amount \in pick_below_min_amount(tx_type) :
    \E note \in NoteChoices :
        row' = Row(ReferenceId(n),
                   src.account_number, src.account_name, src.bank_code,
                   bene.account_number, bene.account_name, bene.bank_code,
                   amount, tx_type, note)

(***************************************************************************)
(* Row selector.                                                           *)
(***************************************************************************)
INVALID_BUILDERS ==
    << [weight |-> 30, fn |-> "build_invalid_bank_code_row"],
       [weight |-> 25, fn |-> "build_inactive_account_row"],
       [weight |-> 15, fn |-> "build_blocked_account_row"],
       [weight |-> 20, fn |-> "build_unknown_account_row"],
       [weight |-> 10, fn |-> "build_below_minimum_amount_row"] >>

\* random.choices(_INVALID_FNS, weights=_INVALID_WEIGHTS, k=1)[0]
RandomChoices == { b.fn : b \in { c \in Range(INVALID_BUILDERS) : c.weight > 0 } }

\* fn(i)
CallBuilder(f, n) ==
    CASE f = "build_invalid_bank_code_row" ->
            build_invalid_bank_code_row(n) /\ redraws' = 0
      [] f = "build_inactive_account_row" ->
            build_inactive_account_row(n) /\ redraws' = 0
      [] f = "build_blocked_account_row" ->
            build_blocked_account_row(n) /\ redraws' = 0
      [] f = "build_unknown_account_row" ->
            build_unknown_account_row(n)
      [] f = "build_below_minimum_amount_row" ->
            build_below_minimum_amount_row(n) /\ redraws' = 0

pick_invalid_row(n) ==
    \E f \in RandomChoices : fn' = f /\ CallBuilder(f, n)

(***************************************************************************)
(* main()                                                                  *)
(***************************************************************************)
\* A --rows token: an integer literal, or text int() rejects.
RowsTokens ==
    { [is_int |-> TRUE, value |-> v] : v \in (-1)..MaxRows }
    \cup { [is_int |-> FALSE, value |-> 0] }

\* --invalid-rate values, in hundredths
RateTokens == {-50, 0, 50, 100, 150}

NoRow == Row([prefix |-> "", digits |-> <<>>], <<>>, "", "", <<>>, "", "", 0, "", "")

Max(a, b) == IF a >= b THEN a ELSE b
Min(a, b) == IF a <= b THEN a ELSE b

\* max(0.0, min(1.0, args.invalid_rate))
ClampRate(r) == Max(0, Min(100, r))

\* int(x / 100): truncation toward zero
IntHundredths(x) == IF x >= 0 THEN x \div 100 ELSE -((-x) \div 100)

\* Variant: random.random() <= invalid_rate.
DrawsInvalidInclusive(x, rate) == x <= rate

\* random.random() < invalid_rate
DrawsInvalid(x, rate) == x < rate

Init ==
    /\ pc = "parse"
    /\ argv \in [rows : RowsTokens, invalid_rate : RateTokens, out_dir : BOOLEAN]
    /\ rows = 0
    /\ dirs_created = FALSE
    /\ file_opened = FALSE
    /\ file_closed = FALSE
    /\ file_header = 0
    /\ file_ids = <<>>
    /\ invalid_rate = 0
    /\ expected_invalid = 0
    /\ expected_valid = 0
    /\ valid_count = 0
    /\ invalid_count = 0
    /\ i = 0
    /\ row = NoRow
    /\ fn = "none"
    /\ redraws = 0

\* parser.parse_args(): type=int rejects a token that is no integer literal
\* and the process exits; any integer, negative ones included, is accepted.
ParseArgs ==
    /\ pc = "parse"
    /\ IF argv.rows.is_int
         THEN pc' = "makedirs" /\ rows' = argv.rows.value
         ELSE pc' = "aborted" /\ rows' = rows
    /\ UNCHANGED <<argv, dirs_created, file_opened, file_closed, file_header,
                   file_ids, invalid_rate, expected_invalid, expected_valid,
                   valid_count, invalid_count, i, row, fn, redraws>>

\* out_dir = os.path.dirname(args.out); if out_dir: os.makedirs(out_dir)
MakeDirs ==
    /\ pc = "makedirs"
    /\ dirs_created' = (dirs_created \/ argv.out_dir)
    /\ pc' = "setup"
    /\ UNCHANGED <<argv, rows, file_opened, file_closed, file_header, file_ids,
                   invalid_rate, expected_invalid, expected_valid,
                   valid_count, invalid_count, i, row, fn, redraws>>

\* the clamp, the expected counts and the tallies
Setup ==
    /\ pc = "setup"
    /\ invalid_rate' = ClampRate(argv.invalid_rate)
    /\ expected_invalid' = IntHundredths(rows * invalid_rate')
    /\ expected_valid' = rows - expected_invalid'
    /\ valid_count' = 0
    /\ invalid_count' = 0
    /\ pc' = "open"
    /\ UNCHANGED <<argv, rows, dirs_created, file_opened, file_closed,
                   file_header, file_ids, i, row, fn, redraws>>

\* open(args.out, "w") truncates the file; writer.writerow(header)
OpenFile ==
    /\ pc = "open"
    /\ file_opened' = TRUE
    /\ file_header' = 1
    /\ file_ids' = <<>>
    /\ pc' = "loop"
    /\ UNCHANGED <<argv, rows, dirs_created, file_closed, invalid_rate,
                   expected_invalid, expected_valid, valid_count,
                   invalid_count, i, row, fn, redraws>>

\* one iteration of range(1, args.rows + 1), else-branch
SelectValid ==
    /\ pc = "loop"
    /\ i + 1 <= rows
    /\ \E x \in RandomRandom : ~DrawsInvalid(x, invalid_rate)
    /\ build_valid_row(i + 1)
    /\ fn' = "build_valid_row"
    /\ redraws' = 0
    /\ i' = i + 1
    /\ valid_count' = valid_count + 1
    /\ pc' = "write"
    /\ UNCHANGED <<argv, rows, dirs_created, file_opened, file_closed,
                   file_header, file_ids, invalid_rate, expected_invalid,
                   expected_valid, invalid_count>>

\* one iteration of range(1, args.rows + 1), if-branch
SelectInvalid ==
    /\ pc = "loop"
    /\ i + 1 <= rows
    /\ \E x \in RandomRandom : DrawsInvalid(x, invalid_rate)
    /\ pick_invalid_row(i + 1)
    /\ i' = i + 1
    /\ invalid_count' = invalid_count + 1
    /\ pc' = "write"
    /\ UNCHANGED <<argv, rows, dirs_created, file_opened, file_closed,
                   file_header, file_ids, invalid_rate, expected_invalid,
                   expected_valid, valid_count>>

\* writer.writerow(row).  The row is not read again: the next iteration
\* assigns a new one, so the model forgets it here.
WriteRow ==
    /\ pc = "write"
    /\ file_ids' = Append(file_ids, row.referenceId)
    /\ row' = NoRow
    /\ fn' = "none"
    /\ redraws' = 0
    /\ pc' = "loop"
    /\ UNCHANGED <<argv, rows, dirs_created, file_opened, file_closed,
                   file_header, invalid_rate, expected_invalid,
                   expected_valid, valid_count, invalid_count, i>>

\* the range is exhausted: the with-block closes the file
Finish ==
    /\ pc = "loop"
    /\ ~(i + 1 <= rows)
    /\ file_closed' = TRUE
    /\ pc' = "done"
    /\ UNCHANGED <<argv, rows, dirs_created, file_opened, file_header,
                   file_ids, invalid_rate, expected_invalid, expected_valid,
                   valid_count, invalid_count, i, row, fn, redraws>>

Next ==
    \/ ParseArgs
    \/ MakeDirs
    \/ Setup
    \/ OpenFile
    \/ SelectValid
    \/ SelectInvalid
    \/ WriteRow
    \/ Finish

Spec == Init /\ [][Next]_vars

(***************************************************************************)
(* Vocabulary of the properties.                                           *)
(***************************************************************************)
Seeded(num) == { a \in Range(SEEDED_ACCOUNTS) : a.account_number = num }

\* the seeded status of an account number, "UNKNOWN" when it is not seeded
StatusOf(num) ==
    IF Seeded(num) = {} THEN "UNKNOWN" ELSE (CHOOSE a \in Seeded(num) : TRUE).status

\* the side is a seeded account with the given status, carrying its seeded
\* name and bank code
SeededSide(num, name, bank, status) ==
    \E a \in Seeded(num) :
        a.status = status /\ a.account_name = name /\ a.bank_code = bank

SourceIs(r, status) ==
    SeededSide(r.sourceAccount, r.sourceAccountName, r.sourceBankCode, status)

BeneficiaryIs(r, status) ==
    SeededSide(r.beneficiaryAccount, r.beneficiaryAccountName,
               r.beneficiaryBankCode, status)

MinOf(r) == TX_LIMIT_MAP[r.transactionType].min_amount
MaxOf(r) == TX_LIMIT_MAP[r.transactionType].max_amount

KnownType(r) == r.transactionType \in DOMAIN TX_LIMIT_MAP

AmountInRange(r) == KnownType(r) /\ MinOf(r) <= r.amount /\ r.amount <= MaxOf(r)

\* the "valid row" predicate
ValidRow(r) ==
    /\ SourceIs(r, "ACTIVE")
    /\ BeneficiaryIs(r, "ACTIVE")
    /\ r.sourceAccount # r.beneficiaryAccount
    /\ AmountInRange(r)

IsDigitString(ds, w) == Len(ds) = w /\ \A k \in 1..Len(ds) : ds[k] \in 0..9

RECURSIVE LexLess(_, _)
\* s < t for two strings, as Python compares them
LexLess(s, t) ==
    IF t = <<>> THEN FALSE
    ELSE IF s = <<>> THEN TRUE
    ELSE IF s[1] # t[1] THEN s[1] < t[1]
    ELSE LexLess(Tail(s), Tail(t))

Written == pc = "write"

\* the loop is about to run one more iteration, and pick_invalid_row(i + 1)
\* can be the branch it takes
AtCall ==
    /\ pc = "loop" /\ i + 1 <= rows
    /\ \E x \in RandomRandom : DrawsInvalid(x, invalid_rate)

(***************************************************************************)
(* C1.  A completed run has written exactly 1 header row plus exactly      *)
(* --rows data rows, for every requested --rows and --invalid-rate.        *)
(***************************************************************************)
C1_RowCount ==
    pc = "done" => file_header = 1 /\ Len(file_ids) = rows

(***************************************************************************)
(* C2.  Every row returned by build_valid_row has a source and a           *)
(* beneficiary that are seeded ACTIVE accounts, different from each other, *)
(* each with its seeded bank code, and an amount within [min, max] of the  *)
(* row's transaction type.                                                 *)
(***************************************************************************)
C2_ValidRow ==
    (Written /\ fn = "build_valid_row") => ValidRow(row)

C2_Witness ==
    /\ Written /\ fn = "build_valid_row"
    /\ row.transactionType = "WITHDRAWAL" /\ row.amount = 20000000
    /\ row.sourceAccount = <<7,7,7,7,8,8,8,8,9,9>>

(***************************************************************************)
(* C3.  The reference id of the k-th data row of the file is "TRX-"        *)
(* followed by k zero-padded to 7 digits; the ids are strictly increasing  *)
(* down the file and none occurs twice, whichever builder made the row.    *)
(***************************************************************************)
C3_ReferenceIds ==
    /\ \A k \in 1..Len(file_ids) :
         /\ file_ids[k].prefix = "TRX-"
         /\ IsDigitString(file_ids[k].digits, 7)
         /\ Value(file_ids[k].digits) = k
    /\ \A j, k \in 1..Len(file_ids) :
         j < k => /\ file_ids[j].prefix = file_ids[k].prefix
                  /\ LexLess(file_ids[j].digits, file_ids[k].digits)
    /\ Written => row.referenceId = [prefix |-> "TRX-", digits |-> ZeroPad(Digits(i), 7)]

C3_Witness ==
    /\ pc = "done" /\ Len(file_ids) >= 2
    /\ valid_count >= 1 /\ invalid_count >= 1

(***************************************************************************)
(* C4.  A row from build_invalid_bank_code_row has one or both bank codes  *)
(* replaced by a code of the invalid set, each side's corruption chosen    *)
(* independently: source only, beneficiary only and both sides are all     *)
(* reachable, neither is not; the amount stays within [min, max].          *)
(***************************************************************************)
SourceCorrupted(r) == r.sourceBankCode \in Range(INVALID_BANK_CODES)
BeneficiaryCorrupted(r) == r.beneficiaryBankCode \in Range(INVALID_BANK_CODES)

C4_InvalidBankCode ==
    /\ (Written /\ fn = "build_invalid_bank_code_row") =>
          /\ SourceCorrupted(row) \/ BeneficiaryCorrupted(row)
          /\ AmountInRange(row)
    /\ AtCall =>
          /\ ENABLED (build_invalid_bank_code_row(i + 1)
                        /\ SourceCorrupted(row') /\ ~BeneficiaryCorrupted(row'))
          /\ ENABLED (build_invalid_bank_code_row(i + 1)
                        /\ ~SourceCorrupted(row') /\ BeneficiaryCorrupted(row'))
          /\ ENABLED (build_invalid_bank_code_row(i + 1)
                        /\ SourceCorrupted(row') /\ BeneficiaryCorrupted(row'))

(***************************************************************************)
(* C5.  A row from build_inactive_account_row has exactly one side that is *)
(* a seeded INACTIVE account, the other a seeded ACTIVE account; a row     *)
(* from build_blocked_account_row likewise with BLOCKED; the bad account   *)
(* can be the source and can be the beneficiary.                           *)
(***************************************************************************)
OneSideIs(r, status) ==
    \/ SourceIs(r, status) /\ BeneficiaryIs(r, "ACTIVE")
    \/ SourceIs(r, "ACTIVE") /\ BeneficiaryIs(r, status)

C5_BadAccount ==
    /\ (Written /\ fn = "build_inactive_account_row") => OneSideIs(row, "INACTIVE")
    /\ (Written /\ fn = "build_blocked_account_row") => OneSideIs(row, "BLOCKED")
    /\ AtCall =>
          /\ ENABLED (build_inactive_account_row(i + 1) /\ SourceIs(row', "INACTIVE"))
          /\ ENABLED (build_inactive_account_row(i + 1) /\ BeneficiaryIs(row', "INACTIVE"))
          /\ ENABLED (build_blocked_account_row(i + 1) /\ SourceIs(row', "BLOCKED"))
          /\ ENABLED (build_blocked_account_row(i + 1) /\ BeneficiaryIs(row', "BLOCKED"))

C5_Witness ==
    /\ Written /\ fn = "build_blocked_account_row"
    /\ SourceIs(row, "BLOCKED") /\ BeneficiaryIs(row, "ACTIVE")

(***************************************************************************)
(* C6.  A row from build_unknown_account_row has exactly one side whose    *)
(* account number is a 10-digit numeric string that no seeded account has, *)
(* with a bank code of the valid set; the other side is a seeded ACTIVE    *)
(* account with its own name and bank code.                                *)
(***************************************************************************)
UnknownSide(num, bank) ==
    /\ IsDigitString(num, 10)
    /\ StatusOf(num) = "UNKNOWN"
    /\ bank \in Range(VALID_BANK_CODES)

C6_UnknownAccount ==
    (Written /\ fn = "build_unknown_account_row") =>
        \/ /\ UnknownSide(row.sourceAccount, row.sourceBankCode)
           /\ BeneficiaryIs(row, "ACTIVE")
        \/ /\ SourceIs(row, "ACTIVE")
           /\ UnknownSide(row.beneficiaryAccount, row.beneficiaryBankCode)

C6_Witness ==
    /\ Written /\ fn = "build_unknown_account_row"
    /\ row.sourceAccount = <<9,9,9,9,9,9,9,9,9,9>>
    /\ BeneficiaryIs(row, "ACTIVE")

(***************************************************************************)
(* C7.  A row from build_below_minimum_amount_row has an amount strictly   *)
(* below min(type): 0 when min(type) <= 1, else within [1, min(type)-1];   *)
(* both accounts are seeded ACTIVE accounts, distinct, each with its       *)
(* seeded bank code.                                                       *)
(***************************************************************************)
C7_BelowMinimum ==
    (Written /\ fn = "build_below_minimum_amount_row") =>
        /\ KnownType(row)
        /\ row.amount < MinOf(row)
        /\ MinOf(row) <= 1 => row.amount = 0
        /\ MinOf(row) > 1 => 1 <= row.amount /\ row.amount <= MinOf(row) - 1
        /\ SourceIs(row, "ACTIVE")
        /\ BeneficiaryIs(row, "ACTIVE")
        /\ row.sourceAccount # row.beneficiaryAccount

C7_Witness ==
    /\ Written /\ fn = "build_below_minimum_amount_row"
    /\ row.transactionType = "PAYMENT" /\ row.amount = 999

(***************************************************************************)
(* C8.  A run started with an invalid --rows, a negative one in            *)
(* particular, is aborted by argument parsing before any output: no parent *)
(* directory is created and the output file is not opened or truncated.    *)
(***************************************************************************)
InvalidRowsArgument == ~argv.rows.is_int \/ argv.rows.value < 0

C8_InvalidRowsAborts ==
    InvalidRowsArgument =>
        /\ pc \in {"parse", "aborted"}
        /\ ~dirs_created
        /\ ~file_opened
        /\ file_header = 0

(***************************************************************************)
(* C9.  The invalid-rate is clamped to [0,1] before the selector uses it:  *)
(* with --invalid-rate <= 0 every data row is built by build_valid_row and *)
(* satisfies the valid-row predicate, invalid_count staying 0; with        *)
(* --invalid-rate >= 1 every data row is built by one of the five invalid  *)
(* builders, valid_count staying 0.                                        *)
(***************************************************************************)
AfterSetup == pc \in {"open", "loop", "write", "done"}

C9_ClampedRate ==
    AfterSetup =>
        /\ 0 <= invalid_rate /\ invalid_rate <= 100
        /\ argv.invalid_rate <= 0 =>
              /\ invalid_count = 0
              /\ valid_count = i
              /\ Written => fn = "build_valid_row" /\ ValidRow(row)
        /\ argv.invalid_rate >= 100 =>
              /\ valid_count = 0
              /\ invalid_count = i
              /\ Written => fn \in { b.fn : b \in Range(INVALID_BUILDERS) }

C9_Witness ==
    /\ pc = "done" /\ argv.invalid_rate = 0
    /\ valid_count >= 2 /\ Len(file_ids) = valid_count

(***************************************************************************)
(* C10.  unknown_account_number draws from a range disjoint from all       *)
(* seeded account numbers, so the first draw is always accepted and the    *)
(* loop never draws again.                                                 *)
(***************************************************************************)
C10_FirstDrawAccepted ==
    redraws = 0

InUnknownRange(num) ==
    /\ IsDigitString(num, 10)
    /\ WideLeq(<<50000, 0>>, WideOf(num))
    /\ WideLeq(WideOf(num), <<99999, 99999>>)

\* C10 as amended: the range 5000000000..9999999999 holds seeded account
\* numbers; a draw that is one is rejected and the loop draws again, so the
\* first draw is not always accepted, and the number returned is a number
\* of the range that no seeded account has.
C10_RedrawUntilUnseeded ==
    /\ (Written /\ fn = "build_unknown_account_row") =>
          \E num \in {row.sourceAccount, row.beneficiaryAccount} :
              InUnknownRange(num) /\ num \notin SeededNumbers
    /\ Written /\ redraws > 0 => fn = "build_unknown_account_row"
    /\ AtCall => ENABLED (build_unknown_account_row(i + 1) /\ redraws' > 0)

C10_Witness ==
    /\ Written /\ fn = "build_unknown_account_row"
    /\ redraws > 0
    /\ row.beneficiaryAccount = <<5,0,0,0,0,0,0,0,0,0>>

====
